---- MODULE Spec2Model ----
(***************************************************************************)
(* Notes service: CRUD over a single "note" table plus JSON-Lines import.  *)
(* The store is the "notes" table of app/models.py held in SQLite (the     *)
(* DATABASE_URL default of app/settings.py and the engine of the tests).   *)
(* Each action is one HTTP request handled to completion: request-body     *)
(* validation, the route handler of app/routes.py, the crud function of    *)
(* app/crud.py it calls, and the exception handler of app/main.py that     *)
(* shapes an error response.                                               *)
(***************************************************************************)
EXTENDS Integers, Sequences, FiniteSets, TLC

VARIABLES
    notes,      \* the notes table: id -> row
    now,        \* the wall clock read by datetime.now() and by func.now()
    req,        \* the request being handled ("none" between requests)
    resp,       \* the response to req
    assigned,   \* history: every id the table has ever assigned
    session,    \* the session get_session hands to the request
    deleted,    \* what delete_note returned to the request being handled
    stream,     \* the body iterator of a streamed export
    patcher,    \* a PATCH handled step by step, in its own session
    deleter,    \* a DELETE handled step by step, in its own session
    lock        \* the request whose uncommitted write holds the database

vars == <<notes, now, req, resp, assigned, session, deleted, stream, patcher, deleter, lock>>

raceVars == <<patcher, deleter, lock>>

---------------------------------------------------------------------------
(* Bounds of the model *)

MaxId == 2          \* rows are inserted while the next id is at most MaxId
MaxTime == 1        \* the clock runs 0..MaxTime

(* Program constants *)

MAX_BYTES == 10485760
MAX_LINES == 10000
MaxTitleLen == 100
MinTitleLen == 1

---------------------------------------------------------------------------
(* JSON values of request bodies.  k is the JSON type ("absent" when the   *)
(* key is missing), s the text of a string, items the elements of a list.  *)

JAbsent == [k |-> "absent", s |-> "", items |-> <<>>]
JNull == [k |-> "null", s |-> "", items |-> <<>>]
JInt == [k |-> "int", s |-> "", items |-> <<>>]
JStr(str) == [k |-> "str", s |-> str, items |-> <<>>]
JList(elems) == [k |-> "list", s |-> "", items |-> elems]

Title100 == "xxxxxxxxxxxxxxxxxxxxxxxxxxxxxxxxxxxxxxxxxxxxxxxxxxxxxxxxxxxxxxxxxxxxxxxxxxxxxxxxxxxxxxxxxxxxxxxxxxxx"
Title101 == "xxxxxxxxxxxxxxxxxxxxxxxxxxxxxxxxxxxxxxxxxxxxxxxxxxxxxxxxxxxxxxxxxxxxxxxxxxxxxxxxxxxxxxxxxxxxxxxxxxxxx"

(* Python Optional values handed to update_note *)
NoneStr == [some |-> FALSE, v |-> ""]
NoneList == [some |-> FALSE, v |-> <<>>]
SomeVal(x) == [some |-> TRUE, v |-> x]

(* The elements of a JSON list, as the JSON column stores them *)
StrItems(v) == v.items

---------------------------------------------------------------------------
(* Request-body validation: app/schemas.py *)

\* mutant: the upper bound is off by one
TitleOk_OffByOne(v) == v.k = "str" /\ Len(v.s) >= MinTitleLen /\ Len(v.s) <= MaxTitleLen + 1

TitleOk(v) == v.k = "str" /\ Len(v.s) >= MinTitleLen /\ Len(v.s) <= MaxTitleLen

\* mutant: any list passes, whatever its elements
StrListOk_AnyList(v) == v.k = "list"

StrListOk(v) == v.k = "list" /\ \A i \in 1..Len(v.items) : v.items[i].k = "str"

\* NoteCreate (NoteBase): title required, content and tags optional
NoteCreate(p) ==
    /\ TitleOk(p.title)
    /\ p.content.k \in {"absent", "str"}
    /\ (p.tags.k = "absent" \/ StrListOk(p.tags))

\* NoteUpdate: every field optional, null allowed
NoteUpdate(p) ==
    /\ (p.title.k \in {"absent", "null"} \/ TitleOk(p.title))
    /\ p.content.k \in {"absent", "null", "str"}
    /\ (p.tags.k \in {"absent", "null"} \/ StrListOk(p.tags))

\* the parsed NoteCreate model: defaults filled in
CreateFields(p) ==
    [title |-> p.title.s,
     content |-> IF p.content.k = "absent" THEN "" ELSE p.content.s,
     tags |-> IF p.tags.k = "absent" THEN <<>> ELSE StrItems(p.tags)]

\* the parsed NoteUpdate model: None for a missing or null field
UpdateFields(p) ==
    [title |-> IF p.title.k = "str" THEN SomeVal(p.title.s) ELSE NoneStr,
     content |-> IF p.content.k = "str" THEN SomeVal(p.content.s) ELSE NoneStr,
     tags |-> IF p.tags.k = "list" THEN SomeVal(StrItems(p.tags)) ELSE NoneList]

---------------------------------------------------------------------------
(* Responses: app/main.py *)

\* ErrorResponse.code: the machine codes the schema allows
ErrorCodes == {"not_found", "validation_error", "bad_request", "conflict", "internal_error"}

Detail(msg, line) == [msg |-> msg, line |-> line]
NoDetail == Detail("", 0)

Response(op, status, kind, detail, code, body, inserted) ==
    [op |-> op, status |-> status, kind |-> kind, detail |-> detail,
     code |-> code, body |-> body, inserted |-> inserted]

\* HTTPStatus(status_code).phrase.lower().replace(" ", "-")
HTTPStatusSlug ==
    (400 :> "bad-request" @@ 404 :> "not-found" @@ 422 :> "unprocessable-entity"
     @@ 500 :> "internal-server-error" @@ 503 :> "service-unavailable")

_status_code_to_machine_code(status_code) ==
    IF status_code = 404 THEN "not_found"
    ELSE IF status_code \in DOMAIN HTTPStatusSlug THEN HTTPStatusSlug[status_code]
    ELSE "error"

\* raise HTTPException(status_code, detail)
http_exception_handler(op, status_code, detail) ==
    Response(op, status_code, "error", detail,
             _status_code_to_machine_code(status_code), <<>>, 0)

\* RequestValidationError; the detail is the message of the first error
validation_exception_handler(op) ==
    Response(op, 422, "error", Detail("validation error", 0), "validation_error", <<>>, 0)

\* an exception no handler catches: the framework's plain-text 500
ServerError(op) == Response(op, 500, "text", NoDetail, "", <<>>, 0)

---------------------------------------------------------------------------
(* The table and the crud functions: app/models.py, app/crud.py *)

Max(S) == CHOOSE x \in S : \A y \in S : y <= x
Min(S) == CHOOSE x \in S : \A y \in S : x <= y

\* INTEGER PRIMARY KEY of SQLite: one more than the largest id in the table
NextId(tbl) == IF DOMAIN tbl = {} THEN 1 ELSE Max(DOMAIN tbl) + 1

Row(title, content, tags, created_at, updated_at) ==
    [title |-> title, content |-> content, tags |-> tags,
     created_at |-> created_at, updated_at |-> updated_at]

\* NoteRead: a row as serialized in a response
NoteRead(tbl, id) ==
    [id |-> id, title |-> tbl[id].title, content |-> tbl[id].content,
     tags |-> tbl[id].tags, created_at |-> tbl[id].created_at,
     updated_at |-> tbl[id].updated_at]

Insert(tbl, id, row) == [i \in DOMAIN tbl \cup {id} |-> IF i = id THEN row ELSE tbl[i]]

\* mutant: updated_at has no server default and stays at the epoch
create_note_NoUpdatedDefault(tbl, title, content, tags) ==
    Insert(tbl, NextId(tbl),
           Row(title, IF content = "" THEN "" ELSE content,
               IF tags = <<>> THEN <<>> ELSE tags, now, 0))

\* create_note: both timestamps come from server_default=func.now()
create_note(tbl, title, content, tags) ==
    Insert(tbl, NextId(tbl),
           Row(title, IF content = "" THEN "" ELSE content,
               IF tags = <<>> THEN <<>> ELSE tags, now, now))

\* mutant: ties on created_at come out in ascending id order
Before_TieAscending(tbl, a, b) ==
    \/ tbl[a].created_at > tbl[b].created_at
    \/ tbl[a].created_at = tbl[b].created_at /\ a < b

\* ORDER BY created_at DESC, id DESC
Before(tbl, a, b) ==
    \/ tbl[a].created_at > tbl[b].created_at
    \/ tbl[a].created_at = tbl[b].created_at /\ a > b

RECURSIVE OrderedIds(_, _)
OrderedIds(tbl, S) ==
    IF S = {} THEN <<>>
    ELSE LET first == CHOOSE a \in S : \A b \in S \ {a} : Before(tbl, a, b)
         IN <<first>> \o OrderedIds(tbl, S \ {first})

list_notes(tbl) ==
    LET ids == OrderedIds(tbl, DOMAIN tbl)
    IN [i \in 1..Len(ids) |-> NoteRead(tbl, ids[i])]

\* get_note: db.get(Note, note_id), None when there is no such row
get_note(tbl, note_id) == IF note_id \in DOMAIN tbl THEN <<NoteRead(tbl, note_id)>> ELSE <<>>

\* mutant: an omitted tags argument resets the tags (note.tags = tags or [])
update_note_ResetTags(tbl, note_id, title, content, tags) ==
    IF note_id \notin DOMAIN tbl THEN tbl
    ELSE [tbl EXCEPT ![note_id] =
            [title |-> IF title.some THEN title.v ELSE @.title,
             content |-> IF content.some THEN content.v ELSE @.content,
             tags |-> IF tags.some THEN tags.v ELSE <<>>,
             created_at |-> @.created_at,
             updated_at |-> now]]

\* mutant: a missing row is created instead of being reported (upsert)
update_note_Upsert(tbl, note_id, title, content, tags) ==
    LET old == IF note_id \in DOMAIN tbl THEN tbl[note_id] ELSE Row("", "", <<>>, now, now)
    IN Insert(tbl, note_id,
              Row(IF title.some THEN title.v ELSE old.title,
                  IF content.some THEN content.v ELSE old.content,
                  IF tags.some THEN tags.v ELSE old.tags,
                  old.created_at, now))

\* update_note: the table after the commit (unchanged when the row is missing)
update_note(tbl, note_id, title, content, tags) ==
    IF note_id \notin DOMAIN tbl THEN tbl
    ELSE [tbl EXCEPT ![note_id] =
            [title |-> IF title.some THEN title.v ELSE @.title,
             content |-> IF content.some THEN content.v ELSE @.content,
             tags |-> IF tags.some THEN tags.v ELSE @.tags,
             created_at |-> @.created_at,
             updated_at |-> now]]

\* mutant: the delete is never committed
delete_note_NoCommit(tbl, note_id) == tbl

\* delete_note: the table after the commit
delete_note(tbl, note_id) == [i \in DOMAIN tbl \ {note_id} |-> tbl[i]]

\* delete_note's return value
delete_note_result(tbl, note_id) == note_id \in DOMAIN tbl

---------------------------------------------------------------------------
(* POST /notes/import: app/routes.py, bulk_insert_notes of app/crud.py      *)
(*                                                                         *)
(* A blob is the list body.split(b"\n") yields: pad empty lines followed   *)
(* by the lines listed in "lines", and size is len(body).  A line is       *)
(*   "empty"     b""                                                       *)
(*   "blank"     only whitespace                                           *)
(*   "comment"   first non-blank byte is '#'                               *)
(*   "badjson"   json.loads raises                                         *)
(*   "nonobject" JSON that is not an object (array, number, string, null)  *)
(*   "object"    a JSON object with the keys of obj                        *)

ImportObj(title, content, tags, created_at, updated_at) ==
    [title |-> title, content |-> content, tags |-> tags,
     created_at |-> created_at, updated_at |-> updated_at]

NoObj == ImportObj(JAbsent, JAbsent, JAbsent, JAbsent, JAbsent)

Line(kind, obj) == [kind |-> kind, obj |-> obj]

\* datetime.fromisoformat on the timestamp strings of the model
IsoValue ==
    ("1970-01-01T00:00:00+00:00" :> 0 @@ "1970-01-01T00:00:01+00:00" :> 1
     @@ "1970-01-01T00:00:02+00:00" :> 2 @@ "1970-01-01T00:00:03+00:00" :> 3)

\* v[:-1] + "+00:00" for the strings of the model that end with "Z"
ZSuffix ==
    ("1970-01-01T00:00:00Z" :> "1970-01-01T00:00:00+00:00"
     @@ "1970-01-01T00:00:01Z" :> "1970-01-01T00:00:01+00:00")

\* _parse_dt: "none" for a missing or null value, "raise" for HTTPException
_parse_dt(value) ==
    IF value.k \in {"absent", "null"} THEN [r |-> "none", t |-> 0]
    ELSE IF value.k # "str" THEN [r |-> "raise", t |-> 0]
    ELSE LET v == IF value.s \in DOMAIN ZSuffix THEN ZSuffix[value.s] ELSE value.s
         IN IF v \in DOMAIN IsoValue THEN [r |-> "ok", t |-> IsoValue[v]]
            ELSE [r |-> "raise", t |-> 0]

ImportResult(outcome, status, detail, items) ==
    [outcome |-> outcome, status |-> status, detail |-> detail, items |-> items]

\* the body of the for loop for one JSON object: the item appended, or the error raised
import_object(data, idx, items) ==
    IF ~(data.title.k = "str" /\ Len(data.title.s) >= MinTitleLen
                              /\ Len(data.title.s) <= MaxTitleLen)
    THEN ImportResult("raise", 400, Detail("invalid title on line", idx), <<>>)
    ELSE IF data.content.k \notin {"absent", "str"}
    THEN ImportResult("raise", 400, Detail("invalid content on line", idx), <<>>)
    ELSE IF ~(data.tags.k = "absent" \/ StrListOk(data.tags))
    THEN ImportResult("raise", 400, Detail("invalid tags on line", idx), <<>>)
    ELSE LET c == _parse_dt(data.created_at) IN
    IF c.r = "raise"
    THEN ImportResult("raise", 400, Detail("invalid created_at on line", idx), <<>>)
    ELSE LET created_at == IF c.r = "ok" THEN c.t ELSE now
             u == _parse_dt(data.updated_at) IN
    IF u.r = "raise"
    THEN ImportResult("raise", 400, Detail("invalid updated_at on line", idx), <<>>)
    ELSE LET updated_at == IF u.r = "ok" THEN u.t ELSE created_at
         IN ImportResult("ok", 200, NoDetail,
                Append(items, Row(data.title.s,
                                  IF data.content.k = "absent" THEN "" ELSE data.content.s,
                                  IF data.tags.k = "absent" THEN <<>> ELSE StrItems(data.tags),
                                  created_at, updated_at)))

\* mutant: an invalid line is skipped instead of aborting the import
import_line_SkipInvalid(raw, idx, items) ==
    IF raw.kind \in {"empty", "blank", "comment", "badjson"}
    THEN ImportResult("ok", 200, NoDetail, items)
    ELSE IF raw.kind = "nonobject"
    THEN ImportResult("crash", 500, NoDetail, <<>>)
    ELSE LET r == import_object(raw.obj, idx, items)
         IN IF r.outcome = "raise" THEN ImportResult("ok", 200, NoDetail, items) ELSE r

\* mutant: raw is not stripped, so a whitespace-only line reaches json.loads
import_line_NoStrip(raw, idx, items) ==
    IF raw.kind \in {"empty", "comment"}
    THEN ImportResult("ok", 200, NoDetail, items)
    ELSE IF raw.kind \in {"blank", "badjson"}
    THEN ImportResult("raise", 400, Detail("invalid JSON on line", idx), <<>>)
    ELSE IF raw.kind = "nonobject"
    THEN ImportResult("crash", 500, NoDetail, <<>>)
    ELSE import_object(raw.obj, idx, items)

\* one pass of the loop body for the line raw at position idx
import_line(raw, idx, items) ==
    IF raw.kind \in {"empty", "blank", "comment"}
    THEN ImportResult("ok", 200, NoDetail, items)               \* continue
    ELSE IF raw.kind = "badjson"
    THEN ImportResult("raise", 400, Detail("invalid JSON on line", idx), <<>>)
    ELSE IF raw.kind = "nonobject"
    THEN ImportResult("crash", 500, NoDetail, <<>>)             \* data.get: AttributeError
    ELSE import_object(raw.obj, idx, items)

\* for idx, raw in enumerate(raw_lines, start=1), from the i-th listed line on
RECURSIVE import_loop(_, _, _, _)
import_loop(lines, pad, i, items) ==
    IF i > Len(lines) THEN ImportResult("ok", 200, NoDetail, items)
    ELSE IF pad + i > MAX_LINES
    THEN ImportResult("raise", 400, Detail("too many lines (max 10000)", 0), <<>>)
    ELSE LET r == import_line(lines[i], pad + i, items)
         IN IF r.outcome = "ok" THEN import_loop(lines, pad, i + 1, r.items) ELSE r

\* the size check and the loop; the pad empty lines are skipped one by one
\* unless one of them is past MAX_LINES
import_parse(blob) ==
    IF blob.size > MAX_BYTES
    THEN ImportResult("raise", 400, Detail("payload too large (max 10MB)", 0), <<>>)
    ELSE IF blob.pad > MAX_LINES
    THEN ImportResult("raise", 400, Detail("too many lines (max 10000)", 0), <<>>)
    ELSE import_loop(blob.lines, blob.pad, 1, <<>>)

\* bulk_insert_notes: db.add_all(notes); db.commit()
RECURSIVE bulk_insert_notes(_, _)
bulk_insert_notes(tbl, items) ==
    IF items = <<>> THEN tbl
    ELSE bulk_insert_notes(Insert(tbl, NextId(tbl), Head(items)), Tail(items))

---------------------------------------------------------------------------
(* GET /notes/export: app/routes.py, iter_all_notes of app/crud.py *)

\* datetime.isoformat() of the timestamps of the model
isoformat ==
    (0 :> "1970-01-01T00:00:00" @@ 1 :> "1970-01-01T00:00:01"
     @@ 2 :> "1970-01-01T00:00:02" @@ 3 :> "1970-01-01T00:00:03")

\* mutant: the traversal is ordered by id alone
iter_all_notes_ById(tbl) ==
    [i \in 1..Cardinality(DOMAIN tbl) |->
        CHOOSE a \in DOMAIN tbl : Cardinality({b \in DOMAIN tbl : b > a}) = i - 1]

\* iter_all_notes: the ids in the order the rows are yielded
iter_all_notes(tbl) == OrderedIds(tbl, DOMAIN tbl)

\* line_iter: one JSON object per row the traversal yields
line_iter(tbl) ==
    LET ids == iter_all_notes(tbl)
    IN [i \in 1..Len(ids) |->
          [id |-> ids[i], title |-> tbl[ids[i]].title, content |-> tbl[ids[i]].content,
           tags |-> tbl[ids[i]].tags,
           created_at |-> isoformat[tbl[ids[i]].created_at],
           updated_at |-> isoformat[tbl[ids[i]].updated_at]]]

---------------------------------------------------------------------------
(* The session of a request: app/db.py *)

Session(state, exit) == [state |-> state, exit |-> exit]

NoSession == Session("none", "none")

\* db = SessionLocal()
SessionLocal == Session("open", "none")

\* how the request left the handler: a return, an HTTPException or a
\* validation error, or an exception nothing catches
ExitPath(r) ==
    IF r.status >= 200 /\ r.status <= 299 THEN "return"
    ELSE IF r.kind = "error" THEN "http_error"
    ELSE "exception"

\* mutant: db.close() follows the yield without try/finally
get_session_NoFinally(db, exit) ==
    IF db.state # "open" THEN db
    ELSE Session(IF exit = "return" THEN "closed" ELSE "open", exit)

\* mutant: db.close() in "except Exception" and "else" instead of "finally",
\* which a cancellation passes by
get_session_ExceptException(db, exit) ==
    IF db.state # "open" THEN db
    ELSE Session(IF exit = "cancelled" THEN "open" ELSE "closed", exit)

\* get_session after the yield: finally db.close()
get_session(db, exit) ==
    IF db.state # "open" THEN db
    ELSE Session("closed", exit)

\* Session.execute: a session that was closed begins anew
execute(db) == IF db.state = "open" THEN db ELSE Session("open", db.exit)

---------------------------------------------------------------------------
(* The streamed body of GET /notes/export: StreamingResponse(line_iter())   *)
(* of app/routes.py.  The generator is created by the handler and started  *)
(* by the first read of the body; rows are the lines not yet yielded, sent *)
(* the lines yielded.                                                      *)

Stream(state, rows, sent) == [state |-> state, rows |-> rows, sent |-> sent]

NoStream == Stream("none", <<>>, <<>>)

\* the body has been sent to its end, or the response was cancelled
ResponseSent(st) == st.state \notin {"created", "streaming"}

\* next(line_iter()): the first call runs the query of iter_all_notes
line_iter_next(st, tbl) ==
    LET rows == IF st.state = "created" THEN line_iter(tbl) ELSE st.rows
    IN IF rows = <<>> THEN Stream("exhausted", <<>>, st.sent)
       ELSE Stream("streaming", Tail(rows), Append(st.sent, Head(rows)))

---------------------------------------------------------------------------
(* A request handled step by step: update_note and delete_note of          *)
(* app/crud.py, each in the session of its own request                     *)

Txn(pc, id, payload, loaded, at, status) ==
    [pc |-> pc, id |-> id, payload |-> payload, loaded |-> loaded, at |-> at,
     status |-> status]

\* the row an UPDATE writes: the attributes update_note has set, over old
changed(old, f, at) ==
    Row(IF f.title.some THEN f.title.v ELSE old.title,
        IF f.content.some THEN f.content.v ELSE old.content,
        IF f.tags.some THEN f.tags.v ELSE old.tags,
        old.created_at, at)

\* mutant: the write is an upsert (merge) that inserts the loaded row anew
sql_update_Upsert(tbl, note_id, loaded, f, at) ==
    [matched |-> 1,
     tbl |-> Insert(tbl, note_id,
                    changed(IF note_id \in DOMAIN tbl THEN tbl[note_id] ELSE loaded, f, at))]

\* the flush of db.commit() in update_note: UPDATE notes SET ... WHERE id = note_id,
\* with the number of rows it matched
sql_update(tbl, note_id, loaded, f, at) ==
    IF note_id \in DOMAIN tbl
    THEN [matched |-> 1, tbl |-> [tbl EXCEPT ![note_id] = changed(tbl[note_id], f, at)]]
    ELSE [matched |-> 0, tbl |-> tbl]

---------------------------------------------------------------------------
(* Inputs *)

Ids == 1..MaxId

NoPayload == [title |-> JAbsent, content |-> JAbsent, tags |-> JAbsent]
NoBlob == [size |-> 0, pad |-> 0, lines |-> <<>>]

Request(op, id, payload, blob, dbfail) ==
    [op |-> op, id |-> id, payload |-> payload, blob |-> blob, dbfail |-> dbfail]

Payload(title, content, tags) == [title |-> title, content |-> content, tags |-> tags]

TagsA == JList(<<JStr("a")>>)

CreatePayloads ==
    {Payload(JStr("t"), JAbsent, JAbsent),
     Payload(JStr("t"), JStr(""), JList(<<>>)),
     Payload(JStr(Title100), JStr("c"), TagsA),
     \* rejected by NoteCreate
     Payload(JAbsent, JStr("c"), JAbsent),
     Payload(JStr(""), JAbsent, JAbsent),
     Payload(JStr(Title101), JAbsent, JAbsent),
     Payload(JStr("t"), JAbsent, JStr("not-a-list")),
     Payload(JStr("t"), JAbsent, JList(<<JStr("a"), JInt>>))}

PatchPayloads ==
    {Payload(JAbsent, JAbsent, JAbsent),
     Payload(JStr("t"), JAbsent, JAbsent),
     Payload(JStr(Title100), JAbsent, JAbsent),
     Payload(JAbsent, JStr("c"), JAbsent),
     Payload(JAbsent, JStr(""), JAbsent),
     Payload(JAbsent, JAbsent, TagsA),
     Payload(JAbsent, JAbsent, JList(<<>>)),
     Payload(JNull, JNull, TagsA),
     \* rejected by NoteUpdate
     Payload(JStr(""), JAbsent, JAbsent),
     Payload(JStr(Title101), JStr("c"), JAbsent),
     Payload(JAbsent, JAbsent, JStr("not-a-list")),
     Payload(JAbsent, JStr("c"), JList(<<JInt>>))}

Iso0 == JStr("1970-01-01T00:00:00+00:00")
Iso1 == JStr("1970-01-01T00:00:01+00:00")
Iso1Z == JStr("1970-01-01T00:00:01Z")

Blob(size, pad, lines) == [size |-> size, pad |-> pad, lines |-> lines]

Skipped(kind) == Line(kind, NoObj)
Obj(title, content, tags, created_at, updated_at) ==
    Line("object", ImportObj(title, content, tags, created_at, updated_at))

V1 == Obj(JStr("t"), JAbsent, JAbsent, JAbsent, JAbsent)
V2 == Obj(JStr(Title100), JStr("c"), TagsA, JNull, JAbsent)
V3 == Obj(JStr("t"), JAbsent, JAbsent, Iso1Z, Iso0)
V4 == Obj(JStr("t"), JStr(""), JList(<<>>), Iso0, JAbsent)
V5 == Obj(JStr("t"), JAbsent, JAbsent, JAbsent, Iso1)

BadJson == Line("badjson", NoObj)
NonObject == Line("nonobject", NoObj)
BadTitle == Obj(JStr(Title101), JAbsent, JAbsent, JAbsent, JAbsent)
NoTitle == Obj(JAbsent, JStr("c"), JAbsent, JAbsent, JAbsent)
BadContent == Obj(JStr("t"), JInt, JAbsent, JAbsent, JAbsent)
BadTags == Obj(JStr("t"), JAbsent, JList(<<JStr("a"), JInt>>), JAbsent, JAbsent)
BadCreated == Obj(JStr("t"), JAbsent, JAbsent, JStr("yesterday"), JAbsent)
BadUpdated == Obj(JStr("t"), JAbsent, JAbsent, Iso0, JInt)

\* the line lists of the import blobs
BlobLines ==
    {<<Skipped("empty")>>,
     <<Skipped("comment"), Skipped("blank")>>,
     <<V1>>, <<V2, Skipped("empty")>>, <<V3, V4>>, <<Skipped("comment"), V5>>,
     <<BadJson>>, <<V1, BadJson>>, <<V1, BadTitle>>, <<Skipped("comment"), NoTitle, BadJson>>,
     <<BadContent, BadTags>>, <<V1, V2, BadTags>>, <<Skipped("blank"), BadCreated>>,
     <<BadUpdated, NonObject>>,
     <<NonObject>>, <<V1, NonObject, BadJson>>}

Blobs ==
    {Blob(Len(l), 0, l) : l \in BlobLines}
    \cup {Blob(MAX_LINES + Len(l), p, l) :
            p \in {MAX_LINES - 1, MAX_LINES},
            l \in {<<V1>>, <<BadJson>>, <<V1, Skipped("empty")>>}}
    \cup {Blob(MAX_LINES + 1, MAX_LINES - 1, <<BadJson, V1>>)}
    \cup {Blob(MAX_LINES + 1, MAX_LINES + 1, <<Skipped("empty")>>)}
    \cup {Blob(s, 0, l) : s \in {MAX_BYTES, MAX_BYTES + 1}, l \in {<<V1>>, <<BadTitle>>}}

---------------------------------------------------------------------------
(* The requests *)

NoRequest == Request("none", 0, NoPayload, NoBlob, FALSE)
NoResponse == Response("none", 200, "empty", NoDetail, "", <<>>, 0)

NoTxn == Txn("idle", 0, NoPayload, <<>>, 0, 0)

Idle == req = NoRequest

Init ==
    /\ notes = <<>>
    /\ now = 0
    /\ req = NoRequest
    /\ resp = NoResponse
    /\ assigned = {}
    /\ session = NoSession
    /\ deleted = FALSE
    /\ stream = NoStream
    /\ patcher = NoTxn
    /\ deleter = NoTxn
    /\ lock = "none"

\* time passes between requests
Tick ==
    /\ Idle
    /\ now < MaxTime
    /\ now' = now + 1
    /\ UNCHANGED <<notes, req, resp, assigned, session, deleted>>
    /\ UNCHANGED <<stream, raceVars>>

\* POST /notes
create_note_endpoint(payload) ==
    /\ Idle
    /\ req' = Request("create", 0, payload, NoBlob, FALSE)
    /\ IF ~NoteCreate(payload)
       THEN /\ resp' = validation_exception_handler("create")
            /\ UNCHANGED <<notes, assigned>>
       ELSE LET f == CreateFields(payload)
                id == NextId(notes)
            IN /\ id <= MaxId
               /\ notes' = create_note(notes, f.title,
                                       IF f.content = "" THEN "" ELSE f.content, f.tags)
               /\ resp' = Response("create", 201, "note", NoDetail, "",
                                   <<NoteRead(notes', id)>>, 0)
               /\ assigned' = assigned \cup {id}
    /\ session' = SessionLocal
    /\ UNCHANGED <<now, deleted>>
    /\ UNCHANGED <<stream, raceVars>>

\* GET /notes
list_notes_endpoint ==
    /\ Idle
    /\ req' = Request("list", 0, NoPayload, NoBlob, FALSE)
    /\ resp' = Response("list", 200, "list", NoDetail, "", list_notes(notes), 0)
    /\ session' = SessionLocal
    /\ UNCHANGED <<notes, now, assigned, deleted>>
    /\ UNCHANGED <<stream, raceVars>>

\* GET /notes/export, the stream read to its end
export_notes_endpoint ==
    /\ Idle
    /\ req' = Request("export", 0, NoPayload, NoBlob, FALSE)
    /\ resp' = Response("export", 200, "lines", NoDetail, "", line_iter(notes), 0)
    /\ session' = SessionLocal
    /\ UNCHANGED <<notes, now, assigned, deleted>>
    /\ UNCHANGED <<stream, raceVars>>

\* the answer of GET /notes/{note_id} on the table tbl
get_note_response(tbl, note_id) ==
    LET note == get_note(tbl, note_id)
    IN IF note = <<>>
       THEN http_exception_handler("get", 404, Detail("not found", 0))
       ELSE Response("get", 200, "note", NoDetail, "", note, 0)

\* GET /notes/{note_id}
get_note_endpoint(note_id) ==
    /\ Idle
    /\ req' = Request("get", note_id, NoPayload, NoBlob, FALSE)
    /\ resp' = get_note_response(notes, note_id)
    /\ session' = SessionLocal
    /\ UNCHANGED <<notes, now, assigned, deleted>>
    /\ UNCHANGED <<stream, raceVars>>

\* PATCH /notes/{note_id}
patch_note_endpoint(note_id, payload) ==
    /\ Idle
    /\ req' = Request("patch", note_id, payload, NoBlob, FALSE)
    /\ IF ~NoteUpdate(payload)
       THEN /\ resp' = validation_exception_handler("patch")
            /\ UNCHANGED notes
       ELSE LET f == UpdateFields(payload)
            IN /\ notes' = update_note(notes, note_id, f.title, f.content, f.tags)
               /\ resp' = IF note_id \notin DOMAIN notes
                          THEN http_exception_handler("patch", 404, Detail("not found", 0))
                          ELSE Response("patch", 200, "note", NoDetail, "",
                                        <<NoteRead(notes', note_id)>>, 0)
    /\ session' = SessionLocal
    /\ UNCHANGED <<now, assigned, deleted>>
    /\ UNCHANGED <<stream, raceVars>>

\* DELETE /notes/{note_id}
delete_note_endpoint(note_id) ==
    /\ Idle
    /\ req' = Request("delete", note_id, NoPayload, NoBlob, FALSE)
    /\ notes' = delete_note(notes, note_id)
    /\ deleted' = delete_note_result(notes, note_id)
    /\ resp' = Response("delete", 204, "empty", NoDetail, "", <<>>, 0)
    /\ session' = SessionLocal
    /\ UNCHANGED <<now, assigned>>
    /\ UNCHANGED <<stream, raceVars>>

\* GET /ready: db_ready() is whether SELECT 1 succeeds
ready(db_ready) ==
    /\ Idle
    /\ req' = Request("ready", 0, NoPayload, NoBlob, ~db_ready)
    /\ resp' = IF db_ready
               THEN Response("ready", 200, "status", NoDetail, "", <<>>, 0)
               ELSE Response("ready", 503, "error", Detail("database unavailable", 0),
                             "service-unavailable", <<>>, 0)
    /\ UNCHANGED <<notes, now, assigned, session, deleted>>
    /\ UNCHANGED <<stream, raceVars>>

\* POST /notes/import; dbfail: the commit of the batch raises
import_notes_endpoint(blob, dbfail) ==
    LET r == import_parse(blob)
    IN /\ Idle
       /\ req' = Request("import", 0, NoPayload, blob, dbfail)
       \* the commit is reached only with a parsed, non-empty batch
       /\ dbfail => (r.outcome = "ok" /\ r.items # <<>>)
       /\ IF r.outcome = "raise"
             THEN /\ resp' = http_exception_handler("import", r.status, r.detail)
                  /\ UNCHANGED <<notes, assigned>>
          ELSE IF r.outcome = "crash"
             THEN /\ resp' = ServerError("import")
                  /\ UNCHANGED <<notes, assigned>>
          ELSE IF dbfail
             THEN \* db.rollback()
                  /\ resp' = http_exception_handler("import", 400, Detail("import failed", 0))
                  /\ UNCHANGED <<notes, assigned>>
          ELSE /\ NextId(notes) + Len(r.items) - 1 <= MaxId
               /\ notes' = bulk_insert_notes(notes, r.items)
               /\ resp' = Response("import", 200, "inserted", NoDetail, "", <<>>, Len(r.items))
               /\ assigned' = assigned \cup (DOMAIN notes' \ DOMAIN notes)
       /\ session' = SessionLocal
       /\ UNCHANGED <<now, deleted>>
       /\ UNCHANGED <<stream, raceVars>>

\* the response is sent and get_session resumes after its yield
Complete ==
    /\ ~Idle
    /\ ResponseSent(stream)
    /\ req' = NoRequest
    /\ resp' = NoResponse
    /\ session' = get_session(session, IF stream.state = "cancelled" THEN "cancelled"
                                        ELSE ExitPath(resp))
    /\ deleted' = FALSE
    /\ stream' = IF stream.state \in {"exhausted", "cancelled"} THEN NoStream ELSE stream
    /\ UNCHANGED <<notes, now, assigned, raceVars>>

Next ==
    \/ Tick
    \/ Complete
    \/ \E blob \in Blobs, dbfail \in BOOLEAN : import_notes_endpoint(blob, dbfail)
    \/ \E payload \in CreatePayloads : create_note_endpoint(payload)
    \/ list_notes_endpoint
    \/ export_notes_endpoint
    \/ \E note_id \in Ids : get_note_endpoint(note_id)
    \/ \E note_id \in Ids, payload \in PatchPayloads : patch_note_endpoint(note_id, payload)
    \/ \E note_id \in Ids : delete_note_endpoint(note_id)
    \/ \E db_ready \in BOOLEAN : ready(db_ready)

Spec == Init /\ [][Next]_vars

---------------------------------------------------------------------------
(* GET /notes/export with its body read line by line *)

\* export_notes_endpoint returns the StreamingResponse; nothing is read yet
export_stream_begin ==
    /\ Idle
    /\ stream.state = "none"
    /\ req' = Request("export", 0, NoPayload, NoBlob, FALSE)
    /\ resp' = Response("export", 200, "stream", NoDetail, "", <<>>, 0)
    /\ session' = SessionLocal
    /\ stream' = Stream("created", <<>>, <<>>)
    /\ UNCHANGED <<notes, now, assigned, deleted, raceVars>>

\* the server reads the next line of the body
export_stream_next ==
    /\ stream.state \in {"created", "streaming"}
    /\ stream' = line_iter_next(stream, notes)
    /\ session' = execute(session)
    /\ resp' = [resp EXCEPT !.body = stream'.sent]
    /\ UNCHANGED <<notes, now, req, assigned, deleted, raceVars>>

\* the client goes away: the response is cancelled
export_stream_cancel ==
    /\ stream.state \in {"created", "streaming"}
    /\ stream' = Stream("cancelled", stream.rows, stream.sent)
    /\ UNCHANGED <<notes, now, req, resp, assigned, session, deleted, raceVars>>

ExportBlobs == {Blob(2, 0, <<V3, V4>>)}

NextExport ==
    \/ Tick
    \/ Complete
    \/ \E payload \in CreatePayloads : create_note_endpoint(payload)
    \/ \E blob \in ExportBlobs : import_notes_endpoint(blob, FALSE)
    \/ \E note_id \in Ids : delete_note_endpoint(note_id)
    \/ export_stream_begin
    \/ export_stream_next
    \/ export_stream_cancel

SpecExport == Init /\ [][NextExport]_vars

---------------------------------------------------------------------------
(* A PATCH and a DELETE in flight together.  Each runs in the session of   *)
(* its own request; a statement reads the committed table, and a write     *)
(* holds the database from its flush to its commit.  patcher and deleter   *)
(* keep the outcome of a finished request until both have finished.        *)

RacePayloads ==
    {Payload(JAbsent, JStr("c"), TagsA),
     \* rejected by NoteUpdate
     Payload(JStr(Title101), JAbsent, JAbsent)}

\* PATCH /notes/{note_id} arrives: body validation, then the handler starts
patch_begin(note_id, payload) ==
    /\ Idle
    /\ patcher.pc = "idle"
    /\ patcher' = IF NoteUpdate(payload)
                  THEN Txn("get", note_id, payload, <<>>, 0, 0)
                  ELSE Txn("done", note_id, payload, <<>>, 0, 422)
    /\ UNCHANGED <<notes, now, req, resp, assigned, session, deleted, stream, deleter, lock>>

\* update_note: db.get, the attributes set, the clock read
patch_get ==
    /\ patcher.pc = "get"
    /\ patcher' = IF patcher.id \in DOMAIN notes
                  THEN [patcher EXCEPT !.pc = "flush", !.loaded = <<notes[patcher.id]>>,
                                       !.at = now]
                  ELSE [patcher EXCEPT !.pc = "done", !.status = 404]
    /\ UNCHANGED <<notes, now, req, resp, assigned, session, deleted, stream, deleter, lock>>

\* update_note: db.commit() flushes the UPDATE; no row matched is StaleDataError
patch_flush ==
    /\ patcher.pc = "flush"
    /\ lock = "none"
    /\ LET r == sql_update(notes, patcher.id, patcher.loaded[1],
                           UpdateFields(patcher.payload), patcher.at)
       IN IF r.matched = 1
          THEN /\ patcher' = [patcher EXCEPT !.pc = "commit"]
               /\ lock' = "patch"
          ELSE /\ patcher' = [patcher EXCEPT !.pc = "done", !.status = 500]
               /\ UNCHANGED lock
    /\ UNCHANGED <<notes, now, req, resp, assigned, session, deleted, stream, deleter>>

\* update_note: db.commit() commits the UPDATE
patch_commit ==
    /\ patcher.pc = "commit"
    /\ notes' = sql_update(notes, patcher.id, patcher.loaded[1],
                           UpdateFields(patcher.payload), patcher.at).tbl
    /\ lock' = "none"
    /\ patcher' = [patcher EXCEPT !.pc = "refresh"]
    /\ UNCHANGED <<now, req, resp, assigned, session, deleted, stream, deleter>>

\* update_note: db.refresh(note); a row that is gone is InvalidRequestError
patch_refresh ==
    /\ patcher.pc = "refresh"
    /\ patcher' = [patcher EXCEPT !.pc = "done",
                                  !.status = IF patcher.id \in DOMAIN notes THEN 200 ELSE 500]
    /\ UNCHANGED <<notes, now, req, resp, assigned, session, deleted, stream, deleter, lock>>

\* DELETE /notes/{note_id} arrives
delete_begin(note_id) ==
    /\ Idle
    /\ deleter.pc = "idle"
    /\ deleter' = Txn("get", note_id, NoPayload, <<>>, 0, 0)
    /\ UNCHANGED <<notes, now, req, resp, assigned, session, deleted, stream, patcher, lock>>

\* delete_note: db.get; a missing row returns False and the answer is 204
delete_get ==
    /\ deleter.pc = "get"
    /\ deleter' = IF deleter.id \in DOMAIN notes
                  THEN [deleter EXCEPT !.pc = "flush", !.loaded = <<notes[deleter.id]>>]
                  ELSE [deleter EXCEPT !.pc = "done", !.status = 204]
    /\ UNCHANGED <<notes, now, req, resp, assigned, session, deleted, stream, patcher, lock>>

\* delete_note: db.commit() flushes the DELETE
delete_flush ==
    /\ deleter.pc = "flush"
    /\ lock = "none"
    /\ lock' = "delete"
    /\ deleter' = [deleter EXCEPT !.pc = "commit"]
    /\ UNCHANGED <<notes, now, req, resp, assigned, session, deleted, stream, patcher>>

\* delete_note: db.commit() commits the DELETE; the answer is 204
delete_commit ==
    /\ deleter.pc = "commit"
    /\ notes' = delete_note(notes, deleter.id)
    /\ lock' = "none"
    /\ deleter' = [deleter EXCEPT !.pc = "done", !.status = 204]
    /\ UNCHANGED <<now, req, resp, assigned, session, deleted, stream, patcher>>

\* a write that finds the database held gives up: OperationalError, a 500
write_busy ==
    /\ lock # "none"
    /\ \/ /\ patcher.pc = "flush"
          /\ lock = "delete"
          /\ patcher' = [patcher EXCEPT !.pc = "done", !.status = 500]
          /\ UNCHANGED deleter
       \/ /\ deleter.pc = "flush"
          /\ lock = "patch"
          /\ deleter' = [deleter EXCEPT !.pc = "done", !.status = 500]
          /\ UNCHANGED patcher
    /\ UNCHANGED <<notes, now, req, resp, assigned, session, deleted, stream, lock>>

\* both requests have been answered
race_end ==
    /\ patcher.pc \in {"idle", "done"}
    /\ deleter.pc \in {"idle", "done"}
    /\ patcher.pc = "done" \/ deleter.pc = "done"
    /\ patcher' = NoTxn
    /\ deleter' = NoTxn
    /\ UNCHANGED <<notes, now, req, resp, assigned, session, deleted, stream, lock>>

RaceQuiet == patcher.pc = "idle" /\ deleter.pc = "idle"

NextRace ==
    \/ RaceQuiet /\ Tick
    \/ Complete
    \/ RaceQuiet /\ create_note_endpoint(Payload(JStr("t"), JAbsent, JAbsent))
    \/ \E note_id \in Ids, payload \in RacePayloads : patch_begin(note_id, payload)
    \/ patch_get
    \/ patch_flush
    \/ patch_commit
    \/ patch_refresh
    \/ \E note_id \in Ids : delete_begin(note_id)
    \/ delete_get
    \/ delete_flush
    \/ delete_commit
    \/ write_busy
    \/ race_end

SpecRace == Init /\ [][NextRace]_vars

---------------------------------------------------------------------------
(* Properties *)

Successful(r) == r.status >= 200 /\ r.status <= 299

\* C1: after any sequence of create, import, update and delete requests, the
\* list response holds every stored note exactly once, ordered by created_at
\* descending and, on equal created_at, by id descending.
C1_ListNewestFirst ==
    req.op = "list" =>
        LET items == resp.body
        IN /\ resp.status = 200
           /\ Len(items) = Cardinality(DOMAIN notes)
           /\ {items[i].id : i \in 1..Len(items)} = DOMAIN notes
           /\ \A i \in 1..Len(items) : items[i] = NoteRead(notes, items[i].id)
           /\ \A i \in 1..(Len(items) - 1) :
                \/ items[i].created_at > items[i + 1].created_at
                \/ /\ items[i].created_at = items[i + 1].created_at
                   /\ items[i].id > items[i + 1].id

\* a list of two notes with the same created_at, one of them updated since
C1_Witness ==
    /\ req.op = "list"
    /\ Len(resp.body) = 2
    /\ resp.body[1].created_at = resp.body[2].created_at
    /\ resp.body[1].id = 2
    /\ resp.body[2].updated_at > resp.body[2].created_at

\* a JSON field counts as supplied when it is present and not null
Supplied(v) == v.k \notin {"absent", "null"}

\* C2: a successful update changes only the supplied fields among title,
\* content and tags (each replaced wholesale, an empty string or empty list
\* included) and updated_at; omitted fields, the id and created_at stay as
\* they were, and no other note changes.
C2_UpdateFrame ==
    [][(req'.op = "patch" /\ resp'.status = 200) =>
         LET id == req'.id
             p == req'.payload
         IN /\ id \in DOMAIN notes
            /\ DOMAIN notes' = DOMAIN notes
            /\ \A j \in DOMAIN notes \ {id} : notes'[j] = notes[j]
            /\ notes'[id].created_at = notes[id].created_at
            /\ notes'[id].title = IF Supplied(p.title) THEN p.title.s ELSE notes[id].title
            /\ notes'[id].content =
                   IF Supplied(p.content) THEN p.content.s ELSE notes[id].content
            /\ notes'[id].tags = IF Supplied(p.tags) THEN StrItems(p.tags) ELSE notes[id].tags
            /\ resp'.body = <<NoteRead(notes', id)>>]_vars

\* content replaced by the empty string on a note that keeps its title and
\* tags, next to a second note
C2_Witness ==
    /\ req.op = "patch"
    /\ resp.status = 200
    /\ req.payload = Payload(JAbsent, JStr(""), JAbsent)
    /\ Cardinality(DOMAIN notes) = 2
    /\ notes[req.id].title = Title100
    /\ notes[req.id].tags = <<JStr("a")>>
    /\ notes[req.id].content = ""

\* C3: DELETE answers 204 whether or not the note exists, so also when it is
\* repeated, and a GET of that id after it answers 404.
C3_DeleteIdempotent ==
    req.op = "delete" =>
        /\ resp.status = 204
        /\ resp.kind = "empty"
        /\ get_note_response(notes, req.id).status = 404

\* a delete of an id that was assigned earlier, with another note still stored
C3_Witness ==
    /\ req.op = "delete"
    /\ resp.status = 204
    /\ req.id \in assigned
    /\ notes # <<>>

\* What section 4.2 of the specification calls a valid record, stated apart
\* from the handler: a line is skipped, or it is a JSON object whose fields
\* meet the constraints; anything else is an invalid line.
LineSkipped(l) == l.kind \in {"empty", "blank", "comment"}

TimestampOk(v) ==
    \/ v.k \in {"absent", "null"}
    \/ v.k = "str" /\ v.s \in (DOMAIN IsoValue \cup DOMAIN ZSuffix)

RecordOk(o) ==
    /\ o.title.k = "str" /\ Len(o.title.s) \in 1..100
    /\ o.content.k \in {"absent", "str"}
    /\ o.tags.k = "absent"
         \/ (o.tags.k = "list" /\ \A i \in 1..Len(o.tags.items) : o.tags.items[i].k = "str")
    /\ TimestampOk(o.created_at)
    /\ TimestampOk(o.updated_at)

LineInvalid(l) == ~LineSkipped(l) /\ ~(l.kind = "object" /\ RecordOk(l.obj))

InvalidLines(blob) == {i \in 1..Len(blob.lines) : LineInvalid(blob.lines[i])}

Records(blob) == SelectSeq(blob.lines, LAMBDA l : ~LineSkipped(l))

\* the blob passes the byte ceiling and the line ceiling
WithinCeilings(blob) == blob.size <= MAX_BYTES /\ blob.pad + Len(blob.lines) <= MAX_LINES

\* C4: import is all-or-nothing: with an invalid line anywhere in the blob, or
\* a failing batch insert, the request fails and the stored notes after it
\* are those before it; otherwise (the blob being within the size and line
\* ceilings) every record of the blob is inserted, in order, and nothing
\* else changes.
C4_ImportAllOrNothing ==
    [][req'.op = "import" =>
         LET blob == req'.blob
             recs == Records(blob)
             fresh == DOMAIN notes' \ DOMAIN notes
         IN IF InvalidLines(blob) # {} \/ req'.dbfail \/ ~WithinCeilings(blob)
            THEN resp'.status # 200 /\ notes' = notes
            ELSE /\ resp'.status = 200
                 /\ \A i \in DOMAIN notes : i \in DOMAIN notes' /\ notes'[i] = notes[i]
                 /\ Cardinality(fresh) = Len(recs)
                 /\ resp'.inserted = Len(recs)
                 /\ \A j \in 1..Len(recs) :
                      \E i \in fresh :
                         /\ notes'[i].title = recs[j].obj.title.s
                         /\ notes'[i].content = recs[j].obj.content.s
                         /\ Cardinality({k \in fresh : k < i}) = j - 1]_vars

\* two valid records ahead of an invalid third line: rejected, with the one
\* note stored before the request still the only one
C4_Witness ==
    /\ req.op = "import"
    /\ req.blob.lines = <<V1, V2, BadTags>>
    /\ resp.status = 400
    /\ DOMAIN notes = {1}

\* the messages that name a field, by the error the line has
FieldMessages ==
    {"invalid JSON on line", "invalid title on line", "invalid content on line",
     "invalid tags on line", "invalid created_at on line", "invalid updated_at on line"}

\* C5: an import blob with invalid lines is answered 400 with a detail that
\* names the first invalid line by its 1-based position in the blob, blank
\* and comment lines counted, and the offending field.
C5_ImportFirstInvalidLine ==
    (req.op = "import" /\ WithinCeilings(req.blob) /\ InvalidLines(req.blob) # {}) =>
        /\ resp.status = 400
        /\ resp.detail.msg \in FieldMessages
        /\ resp.detail.line = req.blob.pad + Min(InvalidLines(req.blob))

\* C6: a created note has content "" when content was absent or empty, tags
\* <<>> when tags were absent, and created_at equal to updated_at.
C6_CreateDefaults ==
    (req.op = "create" /\ resp.status = 201) =>
        LET note == resp.body[1]
            p == req.payload
        IN /\ Len(resp.body) = 1
           /\ note.id \in DOMAIN notes /\ note = NoteRead(notes, note.id)
           /\ note.title = p.title.s
           /\ (p.content.k = "absent" \/ p.content = JStr("")) => note.content = ""
           /\ p.tags.k = "absent" => note.tags = <<>>
           /\ note.created_at = note.updated_at

\* a note created from a title alone, after the clock has advanced
C6_Witness ==
    /\ req.op = "create"
    /\ resp.status = 201
    /\ req.payload = Payload(JStr("t"), JAbsent, JAbsent)
    /\ resp.body[1].created_at > 0

\* C7: an id is never reused: the id given to a newly inserted note differs
\* from every id assigned earlier, those of deleted notes included.
C7_IdNeverReused ==
    [][\A i \in DOMAIN notes' \ DOMAIN notes : i \notin assigned]_vars

NotFoundBody(r) ==
    /\ r.status = 404
    /\ r.kind = "error"
    /\ r.detail = Detail("not found", 0)
    /\ r.code = "not_found"

TitleViolation(v) == v.k = "str" /\ (Len(v.s) < 1 \/ Len(v.s) > 100)

TagsViolation(v) ==
    /\ Supplied(v)
    /\ v.k # "list" \/ \E i \in 1..Len(v.items) : v.items[i].k # "str"

\* C9: a create or update body that violates the field constraints is
\* answered 422 with code validation_error, and the stored notes are the same
\* before and after the request.
C9_ValidationBeforeStore ==
    [][(/\ req'.op \in {"create", "patch"}
        /\ TitleViolation(req'.payload.title) \/ TagsViolation(req'.payload.tags)) =>
          /\ resp'.status = 422
          /\ resp'.code = "validation_error"
          /\ notes' = notes]_vars

\* a 101-character title sent to an existing note, and refused
C9_Witness ==
    /\ req.op = "patch"
    /\ req.payload.title = JStr(Title101)
    /\ req.id \in DOMAIN notes
    /\ resp.status = 422

\* C10: every non-2xx response carries a string detail and a code among
\* not_found, validation_error, bad_request, conflict, internal_error.
C10_ErrorBodyShape ==
    ~Successful(resp) =>
        /\ resp.kind = "error"
        /\ resp.detail.msg # ""
        /\ resp.code \in ErrorCodes

ExportKeys == {"id", "title", "content", "tags", "created_at", "updated_at"}

\* C11: an export read to its end yields the notes list() yields on the same
\* store, in the same order, one line per note, each line with exactly the
\* keys id, title, content, tags, created_at, updated_at and the note's
\* values (the timestamps as ISO-8601 text); it depends on the store alone,
\* not on earlier exports.
C11_ExportMatchesList ==
    req.op = "export" =>
        LET l == list_notes(notes)
            b == resp.body
        IN /\ resp.status = 200
           /\ Len(b) = Len(l)
           /\ \A i \in 1..Len(b) :
                /\ DOMAIN b[i] = ExportKeys
                /\ b[i].id = l[i].id
                /\ b[i].title = l[i].title
                /\ b[i].content = l[i].content
                /\ b[i].tags = l[i].tags
                /\ b[i].created_at = isoformat[l[i].created_at]
                /\ b[i].updated_at = isoformat[l[i].updated_at]

\* an export of two notes where the older note has the larger id
C11_Witness ==
    /\ req.op = "export"
    /\ Len(resp.body) = 2
    /\ resp.body[1].id = 1
    /\ resp.body[1].created_at = isoformat[1]
    /\ resp.body[2].created_at = isoformat[0]

\* C12: every stored note has updated_at >= created_at.
C12_UpdatedNotBeforeCreated ==
    \A i \in DOMAIN notes : notes[i].updated_at >= notes[i].created_at

\* C13: every stored note has a title of 1 to 100 characters and tags that
\* are a list holding strings only.
C13_StoredFieldsValid ==
    \A i \in DOMAIN notes :
        /\ Len(notes[i].title) >= 1
        /\ Len(notes[i].title) <= 100
        /\ \A k \in 1..Len(notes[i].tags) : notes[i].tags[k].k = "str"

\* a 100-character title with a tag stored by an import, next to a note
\* whose title was shortened by an update
C13_Witness ==
    /\ req.op = "patch"
    /\ resp.status = 200
    /\ req.payload.title = JStr("t")
    /\ \E i \in DOMAIN notes :
          /\ i # req.id
          /\ notes[i].title = Title100
          /\ notes[i].tags = <<JStr("a")>>

\* C14: a successful update leaves the note with an updated_at strictly
\* greater than the one it had before, whether that came from a create, an
\* update or an import.  Stated for an update made at a clock reading that
\* differs from the note's updated_at, so that a violation never rests on
\* two readings of the clock being equal.
C14_UpdateAdvancesUpdatedAt ==
    [][(req'.op = "patch" /\ resp'.status = 200 /\ notes[req'.id].updated_at # now) =>
         notes'[req'.id].updated_at > notes[req'.id].updated_at]_vars

\* C15: delete returns the same value whether or not the note existed.
C15_DeleteSameIndicator ==
    req.op = "delete" => deleted = TRUE

CeilingMessages == {"payload too large (max 10MB)", "too many lines (max 10000)"}

\* C17: an import blob over the byte ceiling or the line ceiling is answered
\* 400 with the size or too-many-lines message, whatever its lines hold.
C17_CeilingsBeforeParsing ==
    (req.op = "import" /\ ~WithinCeilings(req.blob)) =>
        /\ resp.status = 400
        /\ resp.detail.msg \in CeilingMessages

\* C18: an import blob with an invalid line, a JSON value that is not an
\* object included, is answered 400.
C18_LineViolationIs400 ==
    (req.op = "import" /\ InvalidLines(req.blob) # {}) => resp.status = 400

\* C19: a successful import answers inserted = n, the number of lines that
\* are neither blank nor comments, and stores n more notes, keeping those
\* stored before; a blob within the ceilings with no such line is answered
\* 200 with inserted = 0 and leaves the store as it was.
C19_ImportCount ==
    [][req'.op = "import" =>
         LET blob == req'.blob
             n == Len(Records(blob))
         IN /\ resp'.status = 200 =>
                 /\ resp'.inserted = n
                 /\ Cardinality(DOMAIN notes') = Cardinality(DOMAIN notes) + n
                 /\ \A i \in DOMAIN notes : i \in DOMAIN notes' /\ notes'[i] = notes[i]
            /\ (WithinCeilings(blob) /\ n = 0) =>
                 /\ resp'.status = 200
                 /\ resp'.inserted = 0
                 /\ notes' = notes]_vars

\* a comment line and one record imported into a store that holds a note
C19_Witness ==
    /\ req.op = "import"
    /\ req.blob.lines = <<Skipped("comment"), V5>>
    /\ resp.status = 200
    /\ resp.inserted = 1
    /\ Cardinality(DOMAIN notes) = 2

\* the lines of the blob as text: a newline at the end of the body ends the
\* last line, it does not begin another
TextLines(blob) ==
    LET n == blob.pad + Len(blob.lines)
        last == IF blob.lines = <<>> THEN Skipped("empty")
                ELSE blob.lines[Len(blob.lines)]
    IN IF n > 0 /\ last.kind = "empty" THEN n - 1 ELSE n

\* C20: a blob of at most MAX_LINES lines, each ended by a newline, is not
\* answered "too many lines"; a blob of more than MAX_LINES lines is
\* answered 400.
C20_LineCeiling ==
    (req.op = "import" /\ req.blob.size <= MAX_BYTES) =>
        /\ TextLines(req.blob) <= MAX_LINES =>
              resp.detail.msg # "too many lines (max 10000)"
        /\ TextLines(req.blob) > MAX_LINES => resp.status = 400

StreamActive(st) == st.state \in {"created", "streaming"}

DeleteCommitted == deleter.pc = "done" /\ deleter.status = 204 /\ deleter.loaded # <<>>

\* C22: with a PATCH and a DELETE of one id in flight together, from the
\* commit of the DELETE on the note is absent, whatever the PATCH had read
\* and whatever it does afterwards.
C22_DeletedStaysAbsent ==
    DeleteCommitted => deleter.id \notin DOMAIN notes

\* the PATCH read the note, the DELETE then committed, and the PATCH's write
\* matched no row: it ends in a 500 and the note is absent
C22_Witness ==
    /\ DeleteCommitted
    /\ patcher.id = deleter.id
    /\ patcher.loaded # <<>>
    /\ patcher.pc = "done"
    /\ patcher.status = 500
    /\ deleter.id \notin DOMAIN notes

====
